---- MODULE Spec2Model ----
(***************************************************************************)
(* A model of render_static/engine.py: the StaticTemplateEngine            *)
(* orchestrator (lazy config / context / templates / engines accessors,    *)
(* resolve_destination, render_each / render_to_disk).                      *)
(*                                                                         *)
(* Conventions                                                             *)
(*  - a filesystem path is a sequence of components below the root         *)
(*    (<<>> is the root, <<"out","t1">> is /out/t1);                       *)
(*  - a dotted string ('a.b.C') is the sequence of its dot separated       *)
(*    segments (<<"a","b","C">>), a string without a dot has one segment;  *)
(*  - a dict is a function on the set of its keys; an ordered dict is a    *)
(*    sequence of records in insertion order;                              *)
(*  - a call that raises yields a record whose status names the exception. *)
(***************************************************************************)
EXTENDS Integers, Sequences, FiniteSets, TLC

VARIABLES settings,   \* django.conf.settings: STATIC_TEMPLATES, STATIC_ROOT
          self,       \* the StaticTemplateEngine instance: config_ and its cached properties
          fs,         \* the disk: directories and files
          gen,        \* the render_each generator of the call in progress
          probe       \* inputs and result of a directly invoked accessor / static method

vars == <<settings, self, fs, gen, probe>>

(***************************************************************************)
(* Generic helpers                                                         *)
(***************************************************************************)
Range(s) == {s[i] : i \in 1..Len(s)}

EmptyDict == [k \in {} |-> 0]

\* {**a, **b} and a.update(b): keys of b win
DictMerge(a, b) ==
  [k \in (DOMAIN a) \cup (DOMAIN b) |-> IF k \in DOMAIN b THEN b[k] ELSE a[k]]

\* sequences over S of length lo..hi
SeqsOf(S, lo, hi) == UNION {[1..n -> S] : n \in lo..hi}

\* number of occurrences of x in the sequence s
CountIn(s, x) == Cardinality({i \in 1..Len(s) : s[i] = x})

\* the sequence s without every occurrence after the first of each element
RECURSIVE Dedup(_)
Dedup(s) ==
  IF s = <<>> THEN <<>>
  ELSE LET r == Dedup(SubSeq(s, 1, Len(s) - 1))
           x == s[Len(s)]
       IN IF x \in Range(r) THEN r ELSE Append(r, x)

(***************************************************************************)
(* Configuration values                                                    *)
(***************************************************************************)
\* a STATIC_TEMPLATES dict: the keys it holds and the value under each key
\* (the value recorded for a key the dict does not hold is a fixed filler)
NoEngines == [kind |-> "list", defs |-> <<>>]
NoContextSpec == [kind |-> "None", value |-> EmptyDict, returns |-> "dict"]
NoTemplates == [s \in {} |-> 0]

MkConfig(keys, engs, tmpls, ctx) ==
  [keys |-> keys,
   ENGINES |-> IF "ENGINES" \in keys THEN engs ELSE NoEngines,
   templates |-> IF "templates" \in keys THEN tmpls ELSE NoTemplates,
   context |-> IF "context" \in keys THEN ctx ELSE NoContextSpec]

EmptyConfig == MkConfig({}, NoEngines, NoTemplates, NoContextSpec)

\* an engine definition: BACKEND is missing, not a string, or a dotted string
BackendStr(segs) == [kind |-> "str", segs |-> segs]
BackendMissing == [kind |-> "missing", segs |-> <<>>]
BackendInt == [kind |-> "int", segs |-> <<>>]
EngineDef(backend, hasName, name) ==
  [BACKEND |-> backend, hasNAME |-> hasName, NAME |-> IF hasName THEN name ELSE <<>>]

DjangoBackend == <<"render_static", "backends", "StaticDjangoTemplates">>
Jinja2Backend == <<"render_static", "backends", "StaticJinja2Templates">>

DEFAULT_ENGINE_CONFIG == <<EngineDef(BackendStr(DjangoBackend), FALSE, <<>>)>>

\* the classes django.utils.module_loading.import_string can import
KnownBackends == {DjangoBackend, Jinja2Backend}

(***************************************************************************)
(* The instance and its cached properties                                  *)
(***************************************************************************)
\* StaticTemplateEngine.__init__: a falsy config leaves the class attribute {}
NewEngine(hasConfig, config) ==
  [config_ |-> IF hasConfig /\ config.keys # {} THEN config ELSE EmptyConfig,
   configFrom |-> IF hasConfig /\ config.keys # {} THEN "arg" ELSE "class",
   cached |-> {},
   context |-> EmptyDict,
   templates |-> NoTemplates,
   engines |-> <<>>,
   instantiated |-> {},
   \* how many times the global context specification has been resolved
   resolved |-> 0]

Raise(exc, slf, stg) == [status |-> exc, self |-> slf, settings |-> stg, value |-> <<>>]
Return(val, slf, stg) == [status |-> "ok", self |-> slf, settings |-> stg, value |-> val]

\* StaticTemplateEngine.config (cached_property)
ConfigAccessor(slf, stg) ==
  IF "config" \in slf.cached THEN Return(slf.config_, slf, stg)
  ELSE IF slf.config_.keys = {} /\ ~stg.hasSTATIC_TEMPLATES
  THEN Raise("ImproperlyConfigured", slf, stg)
  ELSE
    LET s1 == IF slf.config_.keys # {} THEN slf
              ELSE IF stg.STATIC_TEMPLATES.isNone
                   THEN [slf EXCEPT !.config_ = EmptyConfig, !.configFrom = "fresh"]
                   ELSE [slf EXCEPT !.config_ = stg.STATIC_TEMPLATES.value,
                                    !.configFrom = "settings"]
        unrecognized_keys == s1.config_.keys \ {"ENGINES", "templates", "context"}
    IN IF unrecognized_keys # {}
       THEN Raise("ImproperlyConfigured", s1, stg)
       ELSE Return(s1.config_, [s1 EXCEPT !.cached = @ \cup {"config"}], stg)

\* self.config[key] = value: the dict is the one object self.config_ names, which
\* is settings.STATIC_TEMPLATES itself when the configuration came from settings
SetEngines(slf, engs) ==
  [slf EXCEPT !.config_ = [@ EXCEPT !.keys = @ \cup {"ENGINES"}, !.ENGINES = engs]]

SettingsAfter(slf, stg) ==
  IF slf.configFrom = "settings"
  THEN [stg EXCEPT !.STATIC_TEMPLATES.value = slf.config_]
  ELSE stg

(***************************************************************************)
(* Contexts: resolve_context, TemplateConfig, the templates and context    *)
(* accessors                                                               *)
(***************************************************************************)
\* a destination argument: None, a pathlib.Path or a (non-empty) str
NoDest == [kind |-> "None", p |-> <<>>]
PathDest(p) == [kind |-> "Path", p |-> p]
StrDest(p) == [kind |-> "str", p |-> p]

\* a context specification: None, a dict, a callable or an import string of a
\* callable (value is what the dict holds / the callable returns, returns is
\* "dict" unless the callable returns something else), or another object
DictSpec(d) == [kind |-> "dict", value |-> d, returns |-> "dict"]
CallableSpec(d) == [kind |-> "callable", value |-> d, returns |-> "dict"]
ImportSpec(d) == [kind |-> "import", value |-> d, returns |-> "dict"]
BadCallableSpec == [kind |-> "callable", value |-> EmptyDict, returns |-> "other"]
InvalidSpec == [kind |-> "invalid", value |-> EmptyDict, returns |-> "other"]

\* render_static.context.resolve_context
ResolveContext(spec) ==
  CASE spec.kind = "None" -> [raised |-> FALSE, value |-> EmptyDict]
    [] spec.kind = "dict" -> [raised |-> FALSE, value |-> spec.value]
    [] spec.kind \in {"callable", "import"} ->
         IF spec.returns = "dict" THEN [raised |-> FALSE, value |-> spec.value]
         ELSE [raised |-> TRUE, value |-> EmptyDict]
    [] OTHER -> [raised |-> TRUE, value |-> EmptyDict]

\* the settings object placed under the 'settings' key
SettingsObject == 0

\* a 'dest' entry of a template configuration: None, or a str / Path that is
\* absolute or relative, or an object of another type
ConfigDest(kind, abs, p) == [kind |-> kind, abs |-> abs, p |-> p]
NoConfigDest == ConfigDest("None", TRUE, <<>>)

\* StaticTemplateEngine.TemplateConfig.__init__
TemplateConfig(name, dest, context) ==
  LET ctx == ResolveContext(context)
      cfg == [name |-> name,
              dest |-> IF dest.kind = "None" THEN NoDest ELSE PathDest(dest.p),
              context |-> ctx.value]
  IN IF dest.kind \notin {"None", "str", "Path"}
     THEN [raised |-> TRUE, value |-> cfg]
     ELSE IF dest.kind # "None" /\ ~dest.abs THEN [raised |-> TRUE, value |-> cfg]
     ELSE IF ctx.raised THEN [raised |-> TRUE, value |-> cfg]
     ELSE [raised |-> FALSE, value |-> cfg]

\* StaticTemplateEngine.templates (cached_property)
TemplatesAccessor(slf, stg) ==
  IF "templates" \in slf.cached THEN Return(slf.templates, slf, stg)
  ELSE
    LET c == ConfigAccessor(slf, stg)
    IN IF c.status # "ok" THEN c
       ELSE
         LET entries == c.self.config_.templates
             built == [n \in DOMAIN entries |->
                         TemplateConfig(n, entries[n].dest, entries[n].context)]
             templates == [n \in DOMAIN entries |-> built[n].value]
         IN IF \E n \in DOMAIN entries : built[n].raised
            THEN Raise("ImproperlyConfigured", c.self, stg)
            ELSE Return(templates,
                        [c.self EXCEPT !.cached = @ \cup {"templates"},
                                       !.templates = templates],
                        stg)

\* lines 256-259: the body of the context property
GlobalContextBody(slf, stg) ==
  LET c == ConfigAccessor(slf, stg)
  IN IF c.status # "ok" THEN c
     ELSE
       LET spec == IF "context" \in c.self.config_.keys THEN c.self.config_.context
                   ELSE DictSpec(EmptyDict)
           ctx == ResolveContext(spec)
           value == DictMerge([k \in {"settings"} |-> SettingsObject], ctx.value)
           s1 == [c.self EXCEPT !.resolved = @ + 1]
       IN IF ctx.raised THEN Raise("ImproperlyConfigured", s1, stg)
          ELSE Return(value,
                      [s1 EXCEPT !.cached = @ \cup {"context"}, !.context = value],
                      stg)

\* a property that runs its body on every access
ContextAccessorUncached(slf, stg) == GlobalContextBody(slf, stg)

\* StaticTemplateEngine.context (cached_property): the body runs until it has
\* returned once; an access that raises caches nothing
ContextAccessor(slf, stg) ==
  IF "context" \in slf.cached THEN Return(slf.context, slf, stg)
  ELSE GlobalContextBody(slf, stg)

(***************************************************************************)
(* StaticTemplateEngine.engines                                            *)
(***************************************************************************)
\* str.rsplit('.', maxsplit): the parts, each the sequence of its segments
RSplit(segs, maxsplit) ==
  IF Len(segs) <= maxsplit + 1
  THEN [i \in 1..Len(segs) |-> <<segs[i]>>]
  ELSE <<SubSeq(segs, 1, Len(segs) - maxsplit)>>
       \o [i \in 1..maxsplit |-> <<segs[Len(segs) - maxsplit + i]>>]

\* backend['BACKEND'].rsplit('.', 2)[-1] inside the try block
DefaultName(backend) ==
  IF backend.kind # "str" THEN [raised |-> TRUE, name |-> <<>>]
  ELSE LET parts == RSplit(backend.segs, 2)
       IN [raised |-> FALSE, name |-> parts[Len(parts)]]

\* {'NAME': default_name, ..., **backend}['NAME']
AliasOf(def) == IF def.hasNAME THEN def.NAME ELSE DefaultName(def.BACKEND).name

\* engines[key] = value on an insertion ordered dict
OrderedSet(od, key, val) ==
  IF \E i \in 1..Len(od) : od[i].alias = key
  THEN [i \in 1..Len(od) |-> IF od[i].alias = key THEN [alias |-> key, value |-> val]
                                                   ELSE od[i]]
  ELSE Append(od, [alias |-> key, value |-> val])

\* the first loop of engines: stops at the first definition whose BACKEND is invalid
RECURSIVE CollectBackends(_, _, _)
CollectBackends(defs, engines, backend_names) ==
  IF defs = <<>> THEN [raised |-> FALSE, engines |-> engines, names |-> backend_names]
  ELSE LET backend == Head(defs)
       IN IF DefaultName(backend.BACKEND).raised
          THEN [raised |-> TRUE, engines |-> engines, names |-> backend_names]
          ELSE CollectBackends(Tail(defs),
                               OrderedSet(engines, AliasOf(backend), backend),
                               Append(backend_names, AliasOf(backend)))

\* Counter(names).most_common(): by count, largest first, ties in first-seen order
RECURSIVE MostCommonFrom(_, _)
MostCommonFrom(names, c) ==
  IF c = 0 THEN <<>>
  ELSE SelectSeq(Dedup(names), LAMBDA a : CountIn(names, a) = c)
       \o MostCommonFrom(names, c - 1)

MostCommon(names) == MostCommonFrom(names, Len(names))

\* a duplicate check that only compares neighbouring definitions
DuplicatesAdjacent(names) ==
  SelectSeq(MostCommon(names),
            LAMBDA a : \E i \in 1..(Len(names) - 1) : names[i] = a /\ names[i + 1] = a)

Duplicates(names) == SelectSeq(MostCommon(names), LAMBDA a : CountIn(names, a) > 1)

\* import_string(backend): a dotted path to a class that exists
ImportString(segs) == Len(segs) >= 2 /\ segs \in KnownBackends

\* the last loop of engines: instantiate each adapter in dict order
RECURSIVE Instantiate(_, _, _)
Instantiate(engines, i, done) ==
  IF i > Len(engines) THEN [raised |-> FALSE, engines |-> engines, instantiated |-> done]
  ELSE LET backend == engines[i].value.BACKEND.segs
       IN IF ~ImportString(backend)
          THEN [raised |-> TRUE, engines |-> engines, instantiated |-> done]
          ELSE Instantiate(
                 [engines EXCEPT ![i].value = [alias |-> engines[i].alias, class |-> backend]],
                 i + 1, Append(done, engines[i].alias))

EnginesAccessor(slf, stg) ==
  IF "engines" \in slf.cached THEN Return(slf.engines, slf, stg)
  ELSE
    LET c == ConfigAccessor(slf, stg)
    IN IF c.status # "ok" THEN c
       ELSE
         LET hasDefs == "ENGINES" \in c.self.config_.keys
             s1 == IF ~hasDefs
                   THEN SetEngines(c.self, [kind |-> "list", defs |-> DEFAULT_ENGINE_CONFIG])
                   ELSE c.self
             stg1 == SettingsAfter(s1, stg)
         IN IF hasDefs /\ s1.config_.ENGINES.kind # "list"
            THEN Raise("ImproperlyConfigured", s1, stg1)
            ELSE
              LET col == CollectBackends(s1.config_.ENGINES.defs, <<>>, <<>>)
                  duplicates == Duplicates(col.names)
                  inst == Instantiate(col.engines, 1, <<>>)
                  s2 == [s1 EXCEPT !.instantiated = @ \cup Range(inst.instantiated)]
              IN IF col.raised THEN Raise("ImproperlyConfigured", s1, stg1)
                 ELSE IF duplicates # <<>>
                 THEN [Raise("ImproperlyConfigured", s1, stg1) EXCEPT !.value = duplicates]
                 ELSE IF inst.raised THEN Raise("ImportError", s2, stg1)
                 ELSE Return(inst.engines,
                             [s2 EXCEPT !.cached = @ \cup {"engines"},
                                        !.engines = inst.engines],
                             stg1)

\* StaticTemplateEngine.__iter__ / __getitem__ / all: the adapters in dict order
All(slf, stg) ==
  LET e == EnginesAccessor(slf, stg)
  IN IF e.status # "ok" THEN e
     ELSE [e EXCEPT !.value = [i \in 1..Len(e.value) |-> e.value[i].value]]


(***************************************************************************)
(* The disk                                                                *)
(***************************************************************************)
Parent(p) == IF p = <<>> THEN <<>> ELSE SubSeq(p, 1, Len(p) - 1)

Prefixes(p) == {SubSeq(p, 1, k) : k \in 0..Len(p)}

\* Path(p).is_dir()
IsDir(disk, p) == p \in disk.dirs

\* os.makedirs(p, exist_ok=True): fails when p or one of its ancestors is a file
MakeDirs(disk, p) ==
  IF Prefixes(p) \cap DOMAIN disk.files # {}
  THEN [raised |-> TRUE, disk |-> disk]
  ELSE [raised |-> FALSE, disk |-> [disk EXCEPT !.dirs = @ \cup Prefixes(p)]]

(***************************************************************************)
(* StaticTemplateEngine.resolve_destination                                *)
(***************************************************************************)
\* the template object a backend returns: its name and origin.app, if any
NoApp == [has |-> FALSE, path |-> <<>>]
App(path) == [has |-> TRUE, path |-> path]
Template(name, app, engine) == [name |-> name, app |-> app, engine |-> engine]

DestRaise(exc, disk) == [status |-> exc, value |-> <<>>, disk |-> disk]

\* the tail of resolve_destination: makedirs of the parent, then Path(dest)
DestReturn(p, disk) ==
  LET m == MakeDirs(disk, Parent(p))
  IN IF m.raised THEN DestRaise("OSError", disk)
     ELSE [status |-> "ok", value |-> p, disk |-> m.disk]

ResolveDestination(config, template, batch, dest, stg, disk) ==
  LET d1 == IF dest.kind = "None" THEN config.dest ELSE dest
  IN IF d1.kind = "None"
     THEN IF template.app.has
          THEN DestReturn(template.app.path \o <<"static">> \o template.name, disk)
          ELSE IF stg.STATIC_ROOT.kind \in {"absent", "None"}
               THEN DestRaise("ImproperlyConfigured", disk)
               ELSE DestReturn(stg.STATIC_ROOT.p \o template.name, disk)
     ELSE IF batch \/ IsDir(disk, d1.p)
          THEN \* dest /= template.template.name: str has no / operator
               IF d1.kind = "str" THEN DestRaise("TypeError", disk)
               ELSE DestReturn(d1.p \o template.name, disk)
          ELSE DestReturn(d1.p, disk)

(***************************************************************************)
(* StaticTemplateEngine.render_each / render_to_disk                       *)
(***************************************************************************)
\* templates[name] = template: the latest engine wins
SetLatest(templates, name, template) ==
  IF \E i \in 1..Len(templates) : templates[i].name = name
  THEN [i \in 1..Len(templates) |->
          IF templates[i].name = name THEN template ELSE templates[i]]
  ELSE Append(templates, template)

\* templates.setdefault(name, template) on the insertion ordered dict
SetDefault(templates, name, template) ==
  IF \E i \in 1..Len(templates) : templates[i].name = name THEN templates
  ELSE Append(templates, template)

\* what the loader of a backend attaches as origin.app: in this model the app
\* directories loader of the Django backend owns template t1
AppOf(engine, name) ==
  IF engine.class = DjangoBackend /\ name = <<"t1">> THEN App(<<"app1">>) ELSE NoApp

\* the answer of one engine to one selector: select_templates raises
\* TemplateDoesNotExist (found = FALSE) or returns names, and get_template
\* raises TemplateDoesNotExist for the names in unloadable
EngineAnswer(found, names, unloadable) ==
  [found |-> found, names |-> names, unloadable |-> unloadable]

CallOf(engine, op, name) == [engine |-> engine.alias, op |-> op, name |-> name]

\* a handler that raises for every load failure
LoadFailureRaisesAlways(templates) == TRUE

\* lines 552-557: `if len(templates): raise RuntimeError(...)`
LoadFailureRaises(templates) == Len(templates) > 0

\* the inner loop of the walk (lines 540-557) from the i-th selected name on
RECURSIVE LoadNames(_, _, _, _, _)
LoadNames(answer, i, templates, calls, engine) ==
  IF i > Len(answer.names)
  THEN [raised |-> FALSE, templates |-> templates, calls |-> calls]
  ELSE
    LET template_name == answer.names[i]
        \* engine.get_template(template_name) is evaluated before setdefault
        calls1 == Append(calls, CallOf(engine, "get_template", template_name))
    IN IF template_name \in answer.unloadable
       THEN IF LoadFailureRaises(templates)
            THEN [raised |-> TRUE, templates |-> templates, calls |-> calls1]
            ELSE LoadNames(answer, i + 1, templates, calls1, engine)
       ELSE LoadNames(answer, i + 1,
                      SetDefault(templates, template_name,
                                 Template(template_name, AppOf(engine, template_name),
                                          engine.alias)),
                      calls1, engine)

\* a batch flag that forgets to ask for an override destination
BatchFlagAnyMulti(selectors, dest, templates) ==
  Len(selectors) > 1 \/ Len(templates) > 1

\* batch = len(selectors) > 1 and dest, then bool(batch or len(templates) > 1)
BatchFlag(selectors, dest, templates) ==
  (Len(selectors) > 1 /\ dest.kind # "None") \/ Len(templates) > 1

\* lines 567-582: one descriptor per resolved template, destinations resolved in
\* dict order; the first failure ends the loop
RECURSIVE BuildRenders(_, _, _, _, _, _, _, _, _)
BuildRenders(selector, config, templates, i, batch, dest, stg, disk, acc) ==
  IF i > Len(templates)
  THEN [status |-> "ok", renders |-> acc.renders, destCalls |-> acc.destCalls, disk |-> disk]
  ELSE
    LET r == ResolveDestination(config, templates[i], batch, dest, stg, disk)
        candidate == IF dest.kind = "None" THEN config.dest ELSE dest
        destCalls == Append(acc.destCalls,
                            [selector |-> selector, sidx |-> acc.sidx,
                             name |-> templates[i].name,
                             batch |-> batch, nTemplates |-> Len(templates),
                             configDest |-> config.dest,
                             candIsDir |-> IsDir(disk, candidate.p),
                             status |-> r.status, value |-> r.value])
    IN IF r.status # "ok"
       THEN [status |-> r.status, renders |-> acc.renders, destCalls |-> destCalls,
             disk |-> r.disk]
       ELSE BuildRenders(selector, config, templates, i + 1, batch, dest, stg, r.disk,
                         [renders |-> Append(acc.renders,
                                             [selector |-> selector, config |-> config,
                                              template |-> templates[i],
                                              destination |-> r.value]),
                          destCalls |-> destCalls, sidx |-> acc.sidx])

\* a merge in which the global context wins
RenderMappingGlobalWins(selfContext, configContext, context) ==
  LET ctx == IF context.given THEN DictMerge(configContext, context.value)
             ELSE configContext
  IN DictMerge(ctx, selfContext)

\* lines 585-595: the mapping handed to template.render
RenderMapping(selfContext, configContext, context) ==
  LET ctx == IF context.given THEN DictMerge(configContext, context.value)
             ELSE configContext
  IN DictMerge(selfContext, ctx)

\* open(str(destination), 'w'): creates or truncates the file
OpenForWrite(disk, p) ==
  IF p \in disk.dirs \/ Parent(p) \notin disk.dirs
  THEN [raised |-> TRUE, disk |-> disk]
  ELSE [raised |-> FALSE,
        disk |-> [disk EXCEPT !.files =
                    [q \in DOMAIN disk.files \cup {p} |->
                       IF q = p THEN <<>> ELSE disk.files[q]]]]

\* a write that is lost
WriteFileLost(disk, p, text) == disk

\* temp_out.write(text)
WriteFile(disk, p, text) ==
  [disk EXCEPT !.files = [q \in DOMAIN disk.files |-> IF q = p THEN <<text>> ELSE disk.files[q]]]

\* the frame of a render_each generator
NewCall(api, selectors, context, dest, first_engine) ==
  [pc |-> "created", api |-> api,
   selectors |-> selectors, contextArg |-> context, dest |-> dest,
   first_engine |-> first_engine,
   context |-> [given |-> FALSE, value |-> EmptyDict],
   idx |-> 1,                 \* the selector being resolved
   config |-> [name |-> <<>>, dest |-> NoDest, context |-> EmptyDict],
   engines |-> <<>>, eng |-> 1,
   templates |-> <<>>, chain |-> <<>>,
   calls |-> <<>>,            \* adapter calls made for the current selector
   answers |-> <<>>,          \* what each consulted engine selected for it
   destCalls |-> <<>>,        \* resolve_destination calls of the whole call
   renders |-> <<>>,
   ridx |-> 1,                \* the descriptor rendered next
   written |-> <<>>,          \* descriptors whose file this call has written
   yielded |-> <<>>,
   mapping |-> EmptyDict,     \* argument of the latest template.render call
   returned |-> [given |-> FALSE, value |-> <<>>],
   error |-> [type |-> "none", selector |-> "", chain |-> <<>>]]

\* no call has been made
NoCall == [NewCall("", <<>>, NoContextSpec, NoDest, FALSE) EXCEPT !.pc = "idle"]

Fail(g, type) ==
  [g EXCEPT !.pc = "failed", !.error = [type |-> type, selector |-> "", chain |-> <<>>]]

(***************************************************************************)
(* The engines accessor on bounded ENGINES settings (SpecEngines)          *)
(***************************************************************************)
MaxEngineDefs == 3

EngineDefChoices ==
  {EngineDef(BackendStr(DjangoBackend), FALSE, <<>>),
   EngineDef(BackendStr(Jinja2Backend), FALSE, <<>>),
   EngineDef(BackendStr(DjangoBackend), TRUE, <<"StaticJinja2Templates">>),
   EngineDef(BackendStr(DjangoBackend), TRUE, <<"custom">>),
   EngineDef(BackendStr(Jinja2Backend), TRUE, <<"custom">>),
   EngineDef(BackendStr(<<"StaticDjangoTemplates">>), FALSE, <<>>),  \* no dot
   EngineDef(BackendStr(<<"nomodule", "Nope">>), FALSE, <<>>),       \* nothing to import
   EngineDef(BackendMissing, TRUE, <<"custom">>),
   EngineDef(BackendMissing, FALSE, <<>>),
   EngineDef(BackendInt, FALSE, <<>>)}

EnginesChoices ==
  {[kind |-> "noniter", defs |-> <<>>]}
  \cup {[kind |-> "list", defs |-> d] : d \in SeqsOf(EngineDefChoices, 0, MaxEngineDefs)}

NoSettings ==
  [hasSTATIC_TEMPLATES |-> FALSE,
   STATIC_TEMPLATES |-> [isNone |-> TRUE, value |-> EmptyConfig],
   STATIC_ROOT |-> [kind |-> "absent", p |-> <<>>]]

SettingsWith(config) ==
  [NoSettings EXCEPT !.hasSTATIC_TEMPLATES = TRUE,
                     !.STATIC_TEMPLATES = [isNone |-> FALSE, value |-> config]]

EmptyDisk == [dirs |-> {<<>>}, files |-> [p \in {} |-> 0]]
NoProbe == [op |-> "none"]

InitEngines ==
  /\ \E keys \in {{}, {"ENGINES"}, {"ENGINES", "bogus"}, {"context"}},
        engs \in EnginesChoices, viaSettings \in BOOLEAN :
       LET config == MkConfig(keys, engs, NoTemplates,
                              [kind |-> "dict", value |-> EmptyDict, returns |-> "dict"])
       IN /\ "ENGINES" \notin keys => engs = NoEngines
          /\ keys = {} => viaSettings
          /\ settings = IF viaSettings THEN SettingsWith(config) ELSE NoSettings
          /\ self = NewEngine(~viaSettings, config)
          /\ probe = [op |-> "none", config |-> config, status |-> "ok", value |-> <<>>]
  /\ fs = EmptyDisk
  /\ gen = NoCall

\* a read of the engines through all()
GetAll ==
  LET r == All(self, settings)
  IN /\ self' = r.self
     /\ settings' = r.settings
     /\ probe' = [probe EXCEPT !.op = "all", !.status = r.status, !.value = r.value]
     /\ UNCHANGED <<fs, gen>>

\* a read of the engines property
GetEngines ==
  LET r == EnginesAccessor(self, settings)
  IN /\ self' = r.self
     /\ settings' = r.settings
     /\ probe' = [probe EXCEPT !.op = "engines", !.status = r.status, !.value = r.value]
     /\ UNCHANGED <<fs, gen>>

NextEngines == GetAll \/ GetEngines

SpecEngines == InitEngines /\ [][NextEngines]_vars

(***************************************************************************)
(* Claims about the engines accessor                                       *)
(***************************************************************************)
\* the definitions the accessor reads: ENGINES, or the built-in default
ProbeDefs ==
  IF "ENGINES" \in probe.config.keys THEN probe.config.ENGINES.defs
  ELSE DEFAULT_ENGINE_CONFIG

ProbeConfigLoads ==
  /\ probe.config.keys \subseteq {"ENGINES", "templates", "context"}
  /\ "ENGINES" \in probe.config.keys => probe.config.ENGINES.kind = "list"

\* the NAME a definition carries: explicit, or the last segment of BACKEND
CarriesName(d) == d.hasNAME \/ d.BACKEND.kind = "str"
DeclaredName(d) ==
  IF d.hasNAME THEN d.NAME ELSE <<d.BACKEND.segs[Len(d.BACKEND.segs)]>>

DuplicatedNames(defs) ==
  {DeclaredName(defs[i]) : i \in {k \in 1..Len(defs) :
      /\ CarriesName(defs[k])
      /\ \E j \in 1..Len(defs) :
           j # k /\ CarriesName(defs[j]) /\ DeclaredName(defs[j]) = DeclaredName(defs[k])}}

ProbeAdapters ==
  IF probe.op = "all" THEN probe.value
  ELSE [i \in 1..Len(probe.value) |-> probe.value[i].value]

\* C9: the engines accessor yields one adapter per engine definition, in
\* declaration order, each under the definition's NAME (explicit or defaulted);
\* when two definitions carry the same NAME, at whatever positions, the access
\* fails with ImproperlyConfigured before any adapter is instantiated, and the
\* error lists exactly the duplicated names (when every BACKEND is a string,
\* so that the BACKEND check has not failed first).
C9_EnginesInOrderNoDuplicates ==
  probe.op \in {"all", "engines"} =>
    /\ probe.status = "ok" =>
         /\ Len(ProbeAdapters) = Len(ProbeDefs)
         /\ \A i \in 1..Len(ProbeDefs) :
              /\ ProbeAdapters[i].alias = DeclaredName(ProbeDefs[i])
              /\ ProbeAdapters[i].class = ProbeDefs[i].BACKEND.segs
    /\ ( /\ ProbeConfigLoads
         /\ \A i \in 1..Len(ProbeDefs) :
              /\ ProbeDefs[i].BACKEND.kind = "str"
              /\ ProbeDefs[i].BACKEND.segs \in KnownBackends
         /\ DuplicatedNames(ProbeDefs) = {} ) => probe.status = "ok"
    /\ DuplicatedNames(ProbeDefs) # {} =>
         /\ probe.status = "ImproperlyConfigured"
         /\ self.instantiated = {}
         /\ ( /\ ProbeConfigLoads
              /\ \A i \in 1..Len(ProbeDefs) : ProbeDefs[i].BACKEND.kind = "str" ) =>
                /\ Range(probe.value) = DuplicatedNames(ProbeDefs)
                /\ Len(probe.value) = Cardinality(DuplicatedNames(ProbeDefs))

\* a rejected configuration whose duplicates are not neighbours, one NAME
\* explicit and the other defaulted from BACKEND
C9_Witness ==
  /\ probe.op = "all"
  /\ probe.status = "ImproperlyConfigured"
  /\ ProbeConfigLoads
  /\ Len(ProbeDefs) = 3
  /\ ProbeDefs[1].hasNAME /\ ~ProbeDefs[3].hasNAME
  /\ \A i \in 1..3 : ProbeDefs[i].BACKEND.kind = "str"
  /\ DuplicatedNames(ProbeDefs) = {DeclaredName(ProbeDefs[1])}
  /\ DeclaredName(ProbeDefs[3]) = DeclaredName(ProbeDefs[1])
  /\ DeclaredName(ProbeDefs[2]) # DeclaredName(ProbeDefs[1])
  /\ probe.value = <<DeclaredName(ProbeDefs[1])>>

\* C10: a definition whose BACKEND is missing or is not a dotted identifier
\* (not a string, or a string without a dot) makes the engines accessor fail
\* with ImproperlyConfigured.
MalformedBackend(d) ==
  \/ d.BACKEND.kind # "str"
  \/ Len(d.BACKEND.segs) < 2

C10_MalformedBackendIsConfigError ==
  ( /\ probe.op \in {"all", "engines"}
    /\ \E i \in 1..Len(ProbeDefs) : MalformedBackend(ProbeDefs[i]) )
  => probe.status = "ImproperlyConfigured"

(***************************************************************************)
(* resolve_destination on bounded inputs (SpecDest)                        *)
(***************************************************************************)
TemplateNames == {<<"t1">>, <<"js", "t2">>}

DestChoices ==
  {NoDest, PathDest(<<"out">>), StrDest(<<"out">>),
   PathDest(<<"out", "f">>), StrDest(<<"out", "f">>)}

ConfigDestChoices == {NoDest, PathDest(<<"cfg">>), PathDest(<<"out", "f">>)}

StaticRootChoices ==
  {[kind |-> "absent", p |-> <<>>], [kind |-> "None", p |-> <<>>],
   [kind |-> "str", p |-> <<"sr">>]}

DiskChoices ==
  {EmptyDisk,
   [dirs |-> {<<>>, <<"out">>}, files |-> [p \in {} |-> 0]],
   [dirs |-> {<<>>, <<"cfg">>}, files |-> [p \in {} |-> 0]],
   [dirs |-> {<<>>, <<"out">>, <<"out", "f">>}, files |-> [p \in {} |-> 0]],
   [dirs |-> {<<>>}, files |-> [p \in {<<"out">>} |-> <<>>]],
   [dirs |-> {<<>>, <<"sr">>}, files |-> [p \in {<<"sr", "js">>} |-> <<>>]]}

InitDest ==
  /\ \E root \in StaticRootChoices :
       settings = [NoSettings EXCEPT !.STATIC_ROOT = root]
  /\ self = NewEngine(FALSE, EmptyConfig)
  /\ fs \in DiskChoices
  /\ gen = NoCall
  /\ \E cd \in ConfigDestChoices, d \in DestChoices, batch \in BOOLEAN,
        name \in TemplateNames, app \in {NoApp, App(<<"app">>)} :
       probe = [op |-> "none",
                config |-> [dest |-> cd, context |-> EmptyDict],
                template |-> Template(name, app, <<>>),
                batch |-> batch, dest |-> d, disk |-> fs,
                status |-> "ok", value |-> <<>>]

\* StaticTemplateEngine.resolve_destination(config, template, batch, dest)
CallResolveDestination ==
  /\ probe.op = "none"
  /\ LET r == ResolveDestination(probe.config, probe.template, probe.batch,
                                 probe.dest, settings, fs)
     IN /\ fs' = r.disk
        /\ probe' = [probe EXCEPT !.op = "resolve_destination",
                                  !.status = r.status, !.value = r.value]
  /\ UNCHANGED <<settings, self, gen>>

NextDest == CallResolveDestination

SpecDest == InitDest /\ [][NextDest]_vars

\* the candidate of the claim: the caller override if given, else the configured dest
Candidate == IF probe.dest.kind # "None" THEN probe.dest ELSE probe.config.dest

\* the path the claim names for the probed input
ClaimedDestination ==
  IF Candidate.kind = "None"
  THEN IF probe.template.app.has
       THEN probe.template.app.path \o <<"static">> \o probe.template.name
       ELSE settings.STATIC_ROOT.p \o probe.template.name
  ELSE IF probe.batch \/ Candidate.p \in probe.disk.dirs
       THEN Candidate.p \o probe.template.name
       ELSE Candidate.p

NoDestinationKnown ==
  /\ Candidate.kind = "None"
  /\ ~probe.template.app.has
  /\ settings.STATIC_ROOT.kind # "str"

\* C7: resolve_destination returns the claimed path for every combination of
\* override, configured dest, owning application, static root, batch flag and
\* disk: a configuration error when nothing names a destination, otherwise the
\* claimed path with its parent directory present on return (the only other
\* outcome allowed is the operating system refusing to create that parent).
C7_DestinationAsClaimed ==
  probe.op = "resolve_destination" =>
    IF NoDestinationKnown THEN probe.status = "ImproperlyConfigured"
    ELSE \/ /\ probe.status = "ok"
            /\ probe.value = ClaimedDestination
            /\ Parent(probe.value) \in fs.dirs
         \/ /\ probe.status = "OSError"
            /\ Prefixes(Parent(ClaimedDestination)) \cap DOMAIN probe.disk.files # {}

\* the part of C7 the code keeps: the claim holds whenever the candidate is a
\* pathlib.Path (a configured dest always is one)
C7_HoldsForPathCandidates ==
  (probe.op = "resolve_destination" /\ Candidate.kind # "str")
  => C7_DestinationAsClaimed

(***************************************************************************)
(* One orchestrator, one render call (Spec)                                *)
(***************************************************************************)
MaxSelectors == 2

Selectors == {"s1", "s2"}
Names == {<<"t1">>, <<"js", "t2">>}
Ctx(a, b, c) == [k \in {"a", "b", "c"} |-> CASE k = "a" -> a [] k = "b" -> b [] OTHER -> c]
Restrict(f, S) == [k \in S |-> f[k]]

\* two engines, a configured template s1 (dest and context), a global context
ConfigTwoEngines ==
  MkConfig({"ENGINES", "templates", "context"},
           [kind |-> "list",
            defs |-> <<EngineDef(BackendStr(DjangoBackend), FALSE, <<>>),
                       EngineDef(BackendStr(Jinja2Backend), FALSE, <<>>)>>],
           [n \in {"s1"} |->
              [dest |-> ConfigDest("Path", TRUE, <<"cfg">>),
               context |-> DictSpec(Restrict(Ctx(0, 3, 4), {"b", "c"}))]],
           DictSpec(Restrict(Ctx(1, 2, 0), {"a", "b"})))

\* no ENGINES (the built-in default engine), a callable global context
ConfigDefaultEngine ==
  MkConfig({"context"}, NoEngines, NoTemplates, CallableSpec(Restrict(Ctx(1, 0, 0), {"a"})))

\* one engine, a global context callable that returns no dict
ConfigBadContext ==
  MkConfig({"ENGINES", "context"},
           [kind |-> "list", defs |-> <<EngineDef(BackendStr(Jinja2Backend), FALSE, <<>>)>>],
           NoTemplates, BadCallableSpec)

Scenarios ==
  {[config |-> ConfigTwoEngines, root |-> [kind |-> "str", p |-> <<"sr">>]],
   [config |-> ConfigDefaultEngine, root |-> [kind |-> "absent", p |-> <<>>]],
   [config |-> ConfigBadContext, root |-> [kind |-> "str", p |-> <<"sr">>]]}

InitialDisk == [dirs |-> {<<>>, <<"out">>}, files |-> [p \in {} |-> 0]]

CallDests == {NoDest, PathDest(<<"out">>), PathDest(<<"new">>), StrDest(<<"new">>)}
CallContexts == {NoContextSpec, DictSpec(Restrict(Ctx(0, 0, 5), {"c"}))}

\* non-empty sequences of distinct names
NameLists == {q \in SeqsOf(Names, 1, Cardinality(Names)) :
                \A i, j \in 1..Len(q) : i # j => q[i] # q[j]}

\* the answers an engine may give: not found, or names of which at most one
\* fails to load
EngineAnswers ==
  {EngineAnswer(FALSE, <<>>, {})}
  \cup UNION {{EngineAnswer(TRUE, q, u) : u \in {{}} \cup {{n} : n \in Range(q)}}
              : q \in NameLists}

Init ==
  /\ \E sc \in Scenarios :
       /\ settings = [NoSettings EXCEPT !.STATIC_ROOT = sc.root]
       /\ self = NewEngine(TRUE, sc.config)
  /\ fs = InitialDisk
  /\ gen = NoCall
  /\ probe = NoProbe

\* engine.render_each(*selectors, context=, dest=, first_engine=): the generator
\* is created, no line of its body has run
CallRenderEach ==
  /\ gen.pc = "idle"
  /\ \E selectors \in SeqsOf(Selectors, 1, MaxSelectors), context \in CallContexts,
        dest \in CallDests, first_engine \in BOOLEAN :
       gen' = NewCall("render_each", selectors, context, dest, first_engine)
  /\ UNCHANGED <<settings, self, fs, probe>>

\* engine.render_to_disk(selector, context=, dest=, first_engine=)
CallRenderToDisk ==
  /\ gen.pc = "idle"
  /\ \E selector \in Selectors, context \in CallContexts,
        dest \in CallDests, first_engine \in BOOLEAN :
       gen' = NewCall("render_to_disk", <<selector>>, context, dest, first_engine)
  /\ UNCHANGED <<settings, self, fs, probe>>

\* lines 524-525: the override context is resolved when it is truthy
OverrideContext(arg) ==
  LET truthy == arg.kind # "None" /\ ~(arg.kind = "dict" /\ DOMAIN arg.value = {})
      r == ResolveContext(arg)
  IN IF truthy
     THEN [raised |-> r.raised, context |-> [given |-> TRUE, value |-> r.value]]
     ELSE [raised |-> FALSE,
           context |-> [given |-> arg.kind # "None", value |-> EmptyDict]]

\* lines 524-530: the first lines of the generator body
Start ==
  /\ gen.pc = "created"
  /\ LET r == OverrideContext(gen.contextArg)
     IN gen' = IF r.raised THEN Fail(gen, "InvalidContext")
               ELSE [gen EXCEPT !.pc = "select", !.context = r.context]
  /\ UNCHANGED <<settings, self, fs, probe>>

\* lines 531-538: the configuration of the selector and the engines to walk
BeginSelector ==
  /\ gen.pc = "select"
  /\ gen.idx <= Len(gen.selectors)
  /\ LET selector == gen.selectors[gen.idx]
         t == TemplatesAccessor(self, settings)
         e == All(t.self, t.settings)
         config == IF selector \in DOMAIN t.value THEN t.value[selector]
                   ELSE TemplateConfig(selector, NoConfigDest, NoContextSpec).value
     IN IF t.status # "ok"
        THEN /\ gen' = Fail(gen, t.status)
             /\ self' = t.self
             /\ settings' = t.settings
        ELSE /\ self' = e.self
             /\ settings' = e.settings
             /\ gen' = IF e.status # "ok" THEN Fail(gen, e.status)
                       ELSE [gen EXCEPT !.pc = IF Len(e.value) > 0 THEN "walk" ELSE "walked",
                                        !.config = config, !.engines = e.value, !.eng = 1,
                                        !.templates = <<>>, !.chain = <<>>,
                                        !.calls = <<>>, !.answers = <<>>]
  /\ UNCHANGED <<fs, probe>>

\* a chain that keeps only the latest not-found cause
RecordNotFoundLatest(chain, engine) == <<engine.alias>>

\* lines 560-562: the not-found cause of an engine joins the chain
RecordNotFound(chain, engine) == Append(chain, engine.alias)

\* a walk that ignores first_engine
WalkStopsNever(first_engine, templates) == FALSE

\* lines 558-559: with first_engine the walk ends once a template is resolved
WalkStops(first_engine, templates) == first_engine /\ Len(templates) > 0

\* a loop that renders the descriptors of a selector before resolving the next
AfterSelectorRender(idx, selectors) == "render"

\* line 531 / 584: every selector is resolved before the first render
AfterSelector(idx, selectors) == IF idx = Len(selectors) THEN "render" ELSE "select"

\* lines 538-562: one engine of the walk
WalkEngine ==
  /\ gen.pc = "walk"
  /\ \E answer \in EngineAnswers :
       LET engine == gen.engines[gen.eng]
           calls0 == Append(gen.calls, CallOf(engine, "select_templates", <<>>))
           r == LoadNames(answer, 1, gen.templates, calls0, engine)
           answers == Append(gen.answers, [engine |-> engine.alias, answer |-> answer])
           last == gen.eng = Len(gen.engines)
       IN gen' =
            IF ~answer.found
            THEN [gen EXCEPT !.chain = RecordNotFound(@, engine), !.calls = calls0,
                             !.answers = answers, !.eng = @ + 1,
                             !.pc = IF last THEN "walked" ELSE "walk"]
            ELSE IF r.raised
            THEN [Fail(gen, "RuntimeError") EXCEPT !.calls = r.calls, !.answers = answers]
            ELSE [gen EXCEPT !.templates = r.templates, !.calls = r.calls,
                             !.answers = answers, !.eng = @ + 1,
                             !.pc = IF last \/ WalkStops(gen.first_engine, r.templates)
                                    THEN "walked" ELSE "walk"]
  /\ UNCHANGED <<settings, self, fs, probe>>

\* lines 564-582: not found, or the descriptors of the selector
FinishSelector ==
  /\ gen.pc = "walked"
  /\ LET selector == gen.selectors[gen.idx]
         b == BuildRenders(selector, gen.config, gen.templates, 1,
                           BatchFlag(gen.selectors, gen.dest, gen.templates),
                           gen.dest, settings, fs,
                           [renders |-> gen.renders, destCalls |-> gen.destCalls,
                            sidx |-> gen.idx])
     IN IF gen.templates = <<>>
        THEN /\ gen' = [gen EXCEPT !.pc = "failed",
                                   !.error = [type |-> "TemplateDoesNotExist",
                                              selector |-> selector, chain |-> gen.chain]]
             /\ fs' = fs
        ELSE /\ fs' = b.disk
             /\ gen' = IF b.status # "ok"
                       THEN [Fail(gen, b.status) EXCEPT !.destCalls = b.destCalls]
                       ELSE \* the locals of the walk are dead from here on
                            [gen EXCEPT !.renders = b.renders, !.destCalls = b.destCalls,
                                        !.engines = <<>>, !.eng = 1,
                                        !.templates = <<>>, !.chain = <<>>,
                                        !.calls = <<>>, !.answers = <<>>,
                                        !.config = NoCall.config,
                                        !.idx = @ + 1,
                                        !.pc = AfterSelector(gen.idx, gen.selectors)]
  /\ UNCHANGED <<settings, self, probe>>

\* lines 584-597 for the descriptor at ridx; renders is whether template.render
\* returns (TRUE) or raises (FALSE)
RenderStep(renders) ==
  LET render == gen.renders[gen.ridx]
      o == OpenForWrite(fs, render.destination)
      c == ContextAccessor(self, settings)
      mapping == RenderMapping(c.value, render.config.context, gen.context)
      text == [template |-> render.template, context |-> mapping]
  IN IF o.raised
     THEN /\ gen' = Fail(gen, "OSError")
          /\ UNCHANGED <<fs, self, settings>>
     ELSE IF c.status # "ok"
     THEN /\ gen' = Fail(gen, c.status)
          /\ fs' = o.disk
          /\ self' = c.self
          /\ settings' = c.settings
     ELSE /\ self' = c.self
          /\ settings' = c.settings
          /\ IF renders
             THEN /\ fs' = WriteFile(o.disk, render.destination, text)
                  /\ gen' = [gen EXCEPT !.mapping = mapping,
                                        !.written = Append(@, gen.ridx),
                                        !.yielded = Append(@, render),
                                        !.ridx = @ + 1]
             ELSE /\ fs' = o.disk
                  /\ gen' = [Fail(gen, "TemplateError") EXCEPT !.mapping = mapping]

\* one pass of the loop of lines 584-597: render, write, yield
RenderWriteYield ==
  /\ gen.pc = "render"
  /\ gen.ridx <= Len(gen.renders)
  /\ RenderStep(TRUE)
  /\ UNCHANGED probe

\* the same pass when template.render raises inside the with block
RenderRaises ==
  /\ gen.pc = "render"
  /\ gen.ridx <= Len(gen.renders)
  /\ ~OpenForWrite(fs, gen.renders[gen.ridx].destination).raised
  /\ ContextAccessor(self, settings).status = "ok"
  /\ RenderStep(FALSE)
  /\ UNCHANGED probe

\* the loop is over: the generator returns, render_to_disk returns its list
Exhausted ==
  /\ gen.pc = "render"
  /\ gen.ridx > Len(gen.renders)
  /\ gen' = [gen EXCEPT !.pc = "done",
                        !.returned = IF gen.api = "render_to_disk"
                                     THEN [given |-> TRUE, value |-> gen.yielded]
                                     ELSE @]
  /\ UNCHANGED <<settings, self, fs, probe>>

Next ==
  \/ CallRenderEach
  \/ CallRenderToDisk
  \/ Start
  \/ BeginSelector
  \/ WalkEngine
  \/ FinishSelector
  \/ RenderWriteYield
  \/ RenderRaises
  \/ Exhausted

Spec == Init /\ [][Next]_vars

(***************************************************************************)
(* Claims about render_each / render_to_disk                               *)
(***************************************************************************)
\* the names an engine selected and then loaded
Loaded(a) == IF a.answer.found THEN Range(a.answer.names) \ a.answer.unloadable ELSE {}
Selected(a) == IF a.answer.found THEN Range(a.answer.names) ELSE {}

\* the engines that reported no match, in the order they were consulted
NotFoundAliases(answers) ==
  LET nf == SelectSeq(answers, LAMBDA a : ~a.answer.found)
  IN [i \in 1..Len(nf) |-> nf[i].engine]

TemplateNamesOf(templates) == {templates[i].name : i \in 1..Len(templates)}

\* the call failed while resolving selector idx (before the render pass)
FailedInResolution == gen.pc = "failed" /\ gen.idx <= Len(gen.selectors)
\* the call is in, or failed in, the render pass
InRenderPass ==
  \/ gen.pc \in {"render", "done"}
  \/ gen.pc = "failed" /\ gen.idx > Len(gen.selectors)

\* C2: whenever the walk of a selector ends with no template, every engine has
\* been consulted and the next step raises TemplateDoesNotExist for that
\* selector with a chain that is exactly the not-found causes of the engines
\* that reported no match, in precedence order; no file has been written.
C2_NotFoundRaisesWithChain ==
  [][ (gen.pc = "walked" /\ gen.templates = <<>>) =>
        /\ Len(gen.answers) = Len(gen.engines)
        /\ \A i \in 1..Len(gen.answers) : gen.answers[i].engine = gen.engines[i].alias
        /\ gen'.pc = "failed"
        /\ gen'.error = [type |-> "TemplateDoesNotExist",
                         selector |-> gen.selectors[gen.idx],
                         chain |-> NotFoundAliases(gen.answers)]
        /\ fs' = fs
        /\ DOMAIN fs.files = {}
        /\ gen'.written = <<>> /\ gen'.yielded = <<>> /\ ~gen'.returned.given ]_vars

\* the second selector is not found: the first engine selected a name that did
\* not load (no cause recorded), the second reported no match
C2_Witness ==
  /\ gen.pc = "failed"
  /\ gen.error.type = "TemplateDoesNotExist"
  /\ gen.idx = 2
  /\ Len(gen.renders) >= 1
  /\ Len(gen.answers) = 2
  /\ gen.answers[1].answer.found
  /\ gen.error.chain = <<gen.answers[2].engine>>

\* C3 as stated: when selector k fails at resolution time, the caller has
\* received exactly the descriptors of the selectors resolved before k and
\* their files are on disk.
C3_EarlierSelectorsRendered ==
  FailedInResolution =>
    /\ gen.yielded = gen.renders
    /\ \A i \in 1..Len(gen.renders) : gen.renders[i].destination \in DOMAIN fs.files

\* C3 as amended: when selector k fails at resolution time the caller has
\* received no descriptor and the call has written no file (every selector is
\* resolved before the first render, so the descriptors of the selectors
\* before k are dropped); no selector after k has been processed.
C3_ResolutionFailureYieldsNothing ==
  FailedInResolution =>
    /\ gen.yielded = <<>>
    /\ gen.written = <<>>
    /\ ~gen.returned.given
    /\ DOMAIN fs.files = {}
    /\ \A i \in 1..Len(gen.renders) : gen.renders[i].selector \in Range(gen.selectors)
    /\ \A i \in 1..Len(gen.destCalls) : gen.destCalls[i].sidx <= gen.idx
    /\ \A i \in 1..Len(gen.answers) : gen.answers[i].engine = gen.engines[i].alias

\* selector 2 of 2 failed after selector 1 had been resolved into descriptors
C3_Witness ==
  /\ FailedInResolution
  /\ gen.api = "render_each"
  /\ gen.idx = 2
  /\ Len(gen.renders) >= 1
  /\ gen.error.type = "TemplateDoesNotExist"

\* the descriptors the render pass has gone through: the yielded ones and, on
\* a failure, the one that failed
Attempted == IF gen.pc = "failed" THEN gen.ridx ELSE gen.ridx - 1

\* C4: in the render pass the yielded descriptors are a prefix of the resolved
\* ones, in order; the files written by the call are exactly those of the
\* yielded descriptors (each holds the text of the latest descriptor rendered
\* to that path); no file of a later descriptor exists unless an attempted
\* descriptor shares its path; after a failure at j the first j-1 descriptors
\* stay yielded and their files stay on disk.
C4_YieldAfterEachWrite ==
  InRenderPass =>
    /\ Len(gen.yielded) <= Len(gen.renders)
    /\ gen.yielded = SubSeq(gen.renders, 1, Len(gen.yielded))
    /\ gen.written = [i \in 1..Len(gen.yielded) |-> i]
    /\ gen.ridx = Len(gen.yielded) + 1
    /\ gen.pc = "done" => gen.yielded = gen.renders
    /\ \A i \in 1..Len(gen.yielded) :
         LET d == gen.renders[i].destination
         IN /\ d \in DOMAIN fs.files
            /\ (\A j \in (i + 1)..Attempted : gen.renders[j].destination # d)
                 => /\ Len(fs.files[d]) = 1
                    /\ fs.files[d][1].template = gen.renders[i].template
    /\ \A j \in (Attempted + 1)..Len(gen.renders) :
         gen.renders[j].destination \in DOMAIN fs.files
           => \E i \in 1..Attempted : gen.renders[i].destination = gen.renders[j].destination

\* template.render raised for the third descriptor: two are yielded and on disk
C4_Witness ==
  /\ gen.pc = "failed"
  /\ gen.error.type = "TemplateError"
  /\ Len(gen.yielded) = 2
  /\ Len(gen.renders) >= 3
  /\ gen.renders[3].destination \notin {gen.renders[1].destination, gen.renders[2].destination}
  /\ fs.files[gen.renders[3].destination] = <<>>
  /\ Len(fs.files[gen.renders[1].destination]) = 1

\* C5: with first_engine the engines are consulted in precedence order; an
\* engine that reports no match or loads nothing is passed over (the former
\* recorded in the chain) and the walk goes on; once an engine has yielded a
\* template the walk has stopped: no later engine was called and the resolved
\* templates all come from that engine.
C5_FirstEngineStopsWalk ==
  (gen.pc \in {"walk", "walked"} /\ gen.first_engine) =>
    /\ \A i \in 1..Len(gen.answers) : gen.answers[i].engine = gen.engines[i].alias
    /\ \A i \in 1..Len(gen.calls) :
         \E k \in 1..Len(gen.answers) : gen.calls[i].engine = gen.answers[k].engine
    /\ \A i \in 1..(Len(gen.answers) - 1) : Loaded(gen.answers[i]) = {}
    /\ \A i \in 1..Len(gen.answers) :
         ~gen.answers[i].answer.found => gen.answers[i].engine \in Range(gen.chain)
    /\ gen.templates # <<>> =>
         /\ gen.pc = "walked"
         /\ TemplateNamesOf(gen.templates) = Loaded(gen.answers[Len(gen.answers)])
         /\ \A i \in 1..Len(gen.templates) :
              gen.templates[i].engine = gen.answers[Len(gen.answers)].engine
    /\ gen.templates = <<>> =>
         /\ gen.pc = "walk" => gen.eng = Len(gen.answers) + 1 /\ gen.eng <= Len(gen.engines)
         /\ gen.pc = "walked" => Len(gen.answers) = Len(gen.engines)

\* the first engine reported no match, the second matched, and there the walk
\* of a first_engine call ended
C5_Witness ==
  /\ gen.pc = "walked"
  /\ gen.first_engine
  /\ Len(gen.engines) = 2
  /\ Len(gen.answers) = 2
  /\ ~gen.answers[1].answer.found
  /\ gen.chain = <<gen.engines[1].alias>>
  /\ Len(gen.templates) = 2

\* the earliest consulted engine that meets the condition for name n
EarliestWith(n, S(_)) ==
  CHOOSE i \in 1..Len(gen.answers) :
    /\ n \in S(gen.answers[i])
    /\ \A k \in 1..(i - 1) : n \notin S(gen.answers[k])

\* C6 as stated: without first_engine the resolved templates are the union of
\* the names the engines selected, one per name, each from the earliest engine
\* that selected the name.
C6_UnionOfSelectedNames ==
  (gen.pc = "walked" /\ ~gen.first_engine) =>
    /\ TemplateNamesOf(gen.templates) = UNION {Selected(gen.answers[i]) : i \in 1..Len(gen.answers)}
    /\ \A i \in 1..Len(gen.templates) :
         gen.templates[i].engine =
           gen.answers[EarliestWith(gen.templates[i].name, Selected)].engine

\* C6 as amended: without first_engine every engine is consulted and the
\* resolved templates are the union of the names the engines selected and
\* loaded (a selected name whose load fails while nothing is resolved yet is
\* skipped), one template per distinct name, kept from the earliest engine
\* that loaded it; the selector then gets exactly one descriptor per distinct
\* name, in that order.
C6_UnionOfLoadedNames ==
  [][ (gen.pc = "walked" /\ ~gen.first_engine) =>
        /\ Len(gen.answers) = Len(gen.engines)
        /\ TemplateNamesOf(gen.templates) =
             UNION {Loaded(gen.answers[i]) : i \in 1..Len(gen.answers)}
        /\ Cardinality(TemplateNamesOf(gen.templates)) = Len(gen.templates)
        /\ \A i \in 1..Len(gen.templates) :
             gen.templates[i].engine =
               gen.answers[EarliestWith(gen.templates[i].name, Loaded)].engine
        /\ gen'.pc \in {"select", "render"} =>
             /\ Len(gen'.renders) = Len(gen.renders) + Len(gen.templates)
             /\ SubSeq(gen'.renders, 1, Len(gen.renders)) = gen.renders
             /\ \A i \in 1..Len(gen.templates) :
                  /\ gen'.renders[Len(gen.renders) + i].template = gen.templates[i]
                  /\ gen'.renders[Len(gen.renders) + i].selector = gen.selectors[gen.idx]
                  /\ gen'.renders[Len(gen.renders) + i].config = gen.config ]_vars

\* both engines selected the same name and another one each; the walk kept the
\* first engine's template for the shared name
C6_Witness ==
  /\ gen.pc = "walked"
  /\ ~gen.first_engine
  /\ Len(gen.answers) = 2
  /\ Len(gen.templates) = 2
  /\ Loaded(gen.answers[1]) = {<<"t1">>}
  /\ Loaded(gen.answers[2]) = Names
  /\ gen.templates[1].engine = gen.answers[1].engine
  /\ gen.templates[2].engine = gen.answers[2].engine

\* C8: resolve_destination is called with batch true exactly when (several
\* selectors and an override destination) or (the selector resolved to several
\* templates); a non-batch call without override whose configured dest is not
\* an existing directory returns the configured dest itself.
C8_BatchFlag ==
  \A i \in 1..Len(gen.destCalls) :
    LET c == gen.destCalls[i]
    IN /\ c.batch <=> ( \/ (Len(gen.selectors) > 1 /\ gen.dest.kind # "None")
                        \/ c.nTemplates > 1 )
       /\ ( /\ ~c.batch
            /\ gen.dest.kind = "None"
            /\ c.configDest.kind # "None"
            /\ ~c.candIsDir ) => (c.status = "ok" /\ c.value = c.configDest.p)

\* two selectors, no override, the configured selector resolved to one template
C8_Witness ==
  /\ Len(gen.selectors) = 2
  /\ gen.dest.kind = "None"
  /\ \E i \in 1..Len(gen.destCalls) :
       /\ gen.destCalls[i].nTemplates = 1
       /\ ~gen.destCalls[i].batch
       /\ gen.destCalls[i].configDest = PathDest(<<"cfg">>)
       /\ gen.destCalls[i].value = <<"cfg">>

(***************************************************************************)
(* The render pass on bounded contexts (SpecCtx): one selector s1 resolved *)
(* to one template, for every global, per-template and override context    *)
(***************************************************************************)
CtxKeys == {"settings", "a", "b"}

\* the dicts that hold value v under some of the keys
DictsOf(v) == {[k \in K |-> v] : K \in SUBSET CtxKeys}

GlobalSpecs == UNION {{DictSpec(d), CallableSpec(d)} : d \in DictsOf(1)}
TemplateSpecs == {DictSpec(d) : d \in DictsOf(2)} \cup {NoContextSpec}
OverrideSpecs == {DictSpec(d) : d \in DictsOf(3)}
                 \cup {NoContextSpec, ImportSpec([k \in {"a"} |-> 3])}

CtxSettings == [NoSettings EXCEPT !.STATIC_ROOT = [kind |-> "str", p |-> <<"sr">>]]

CtxConfig(g, t) ==
  MkConfig({"ENGINES", "templates", "context"},
           [kind |-> "list",
            defs |-> <<EngineDef(BackendStr(Jinja2Backend), FALSE, <<>>)>>],
           [n \in {"s1"} |-> [dest |-> ConfigDest("Path", TRUE, <<"cfg">>), context |-> t]],
           g)

\* the instance after BeginSelector and the frame after FinishSelector of a
\* call render_each('s1', context=c) whose selector resolved to template t1
InitCtx ==
  \E g \in GlobalSpecs, t \in TemplateSpecs, c \in OverrideSpecs :
    \E tmpl \in {TemplatesAccessor(NewEngine(TRUE, CtxConfig(g, t)), CtxSettings)} :
      \E engs \in {All(tmpl.self, CtxSettings)} :
        \E template \in {Template(<<"t1">>, AppOf(engs.value[1], <<"t1">>),
                                  engs.value[1].alias)} :
          \E call \in {NewCall("render_each", <<"s1">>, c, NoDest, FALSE)} :
            \E built \in {BuildRenders("s1", tmpl.value["s1"], <<template>>, 1,
                                       BatchFlag(call.selectors, call.dest, <<template>>),
                                       call.dest, CtxSettings, InitialDisk,
                                       [renders |-> <<>>, destCalls |-> <<>>,
                                        sidx |-> 1])} :
              /\ settings = CtxSettings
              /\ self = engs.self
              /\ fs = built.disk
              /\ gen = [call EXCEPT !.pc = "render", !.idx = 2,
                                    !.context = OverrideContext(c).context,
                                    !.renders = built.renders,
                                    !.destCalls = built.destCalls]
              /\ probe = NoProbe

NextCtx == RenderWriteYield \/ RenderRaises \/ Exhausted

SpecCtx == InitCtx /\ [][NextCtx]_vars

\* the three layers of the claim: G the global context of the instance, T the
\* configured context of the descriptor, C the override context of the call
GlobalContext == self.context
TemplateContext == gen.renders[1].config.context
CallContext == IF gen.contextArg.kind = "None" THEN EmptyDict ELSE gen.contextArg.value

RenderCalled == gen.yielded # <<>> \/ gen.error.type = "TemplateError"

\* C1: the mapping render_each hands to template.render is G overridden by T
\* overridden by C: its keys are those of G, T and C together, a key of C has
\* C's value, otherwise a key of T has T's value, otherwise G's value; G is the
\* settings object under 'settings' overridden by the configured global context.
C1_ContextPrecedence ==
  RenderCalled =>
    /\ "context" \in self.cached
    /\ DOMAIN GlobalContext = {"settings"} \cup DOMAIN self.config_.context.value
    /\ \A k \in DOMAIN GlobalContext :
         GlobalContext[k] = IF k \in DOMAIN self.config_.context.value
                            THEN self.config_.context.value[k] ELSE SettingsObject
    /\ DOMAIN gen.mapping =
         DOMAIN GlobalContext \cup DOMAIN TemplateContext \cup DOMAIN CallContext
    /\ \A k \in DOMAIN gen.mapping :
         gen.mapping[k] = IF k \in DOMAIN CallContext THEN CallContext[k]
                          ELSE IF k \in DOMAIN TemplateContext THEN TemplateContext[k]
                          ELSE GlobalContext[k]
    /\ gen.yielded # <<>> => fs.files[gen.renders[1].destination][1].context = gen.mapping

\* a key in all three layers, a key in G and T only, a key in G only
C1_Witness ==
  /\ gen.yielded # <<>>
  /\ DOMAIN CallContext = {"a"}
  /\ DOMAIN TemplateContext = {"a", "b"}
  /\ DOMAIN GlobalContext = {"settings", "a", "b"}
  /\ gen.mapping = [k \in {"settings", "a", "b"} |->
                      CASE k = "a" -> 3 [] k = "b" -> 2 [] OTHER -> SettingsObject]

(***************************************************************************)
(* Two orchestrators, accessor reads and repeated render calls (SpecCache) *)
(***************************************************************************)
MaxResolutions == 2

\* one engine, a global context given as an import string of a callable
ConfigImportContext ==
  MkConfig({"ENGINES", "context"},
           [kind |-> "list", defs |-> <<EngineDef(BackendStr(Jinja2Backend), FALSE, <<>>)>>],
           NoTemplates, ImportSpec(Restrict(Ctx(1, 2, 0), {"a", "b"})))

CacheConfigs == {ConfigDefaultEngine, ConfigBadContext, ConfigImportContext}

Accessors == {"config", "context", "templates", "engines"}

\* a read of one cached property of an instance
Accessor(name, slf, stg) ==
  CASE name = "config" -> ConfigAccessor(slf, stg)
    [] name = "context" -> ContextAccessor(slf, stg)
    [] name = "templates" -> TemplatesAccessor(slf, stg)
    [] OTHER -> EnginesAccessor(slf, stg)

\* an instance whose config_ is settings.STATIC_TEMPLATES names that one dict:
\* it sees what another instance stored in it
SharedConfig(slf, stg) ==
  IF slf.configFrom = "settings"
  THEN [slf EXCEPT !.config_ = stg.STATIC_TEMPLATES.value]
  ELSE slf

\* the first instance is self, the second is probe.other; each is built from
\* its own dict, or without argument from settings.STATIC_TEMPLATES
InitCache ==
  /\ \E c1 \in CacheConfigs, c2 \in CacheConfigs, via1 \in BOOLEAN, via2 \in BOOLEAN :
       /\ (via1 /\ via2) => c1 = c2
       /\ settings = [(IF via1 THEN SettingsWith(c1)
                       ELSE IF via2 THEN SettingsWith(c2) ELSE NoSettings)
                      EXCEPT !.STATIC_ROOT = [kind |-> "str", p |-> <<"sr">>]]
       /\ self = NewEngine(~via1, c1)
       /\ probe = [op |-> "none", other |-> NewEngine(~via2, c2)]
  /\ fs = InitialDisk
  /\ gen = NoCall

\* a read of engine.config / .context / .templates / .engines on the first
\* instance, between render calls
ReadSelf ==
  /\ gen.pc \in {"idle", "done", "failed"}
  /\ self.resolved < MaxResolutions
  /\ \E name \in Accessors :
       \E r \in {Accessor(name, self, settings)} :
          /\ self' = r.self
          /\ settings' = r.settings
          /\ probe' = [probe EXCEPT !.op = name, !.other = SharedConfig(@, r.settings)]
  /\ UNCHANGED <<fs, gen>>

\* the same read on the second instance
ReadOther ==
  /\ gen.pc \in {"idle", "done", "failed"}
  /\ probe.other.resolved < MaxResolutions
  /\ \E name \in Accessors :
       \E r \in {Accessor(name, probe.other, settings)} :
          /\ probe' = [probe EXCEPT !.op = name, !.other = r.self]
          /\ settings' = r.settings
          /\ self' = SharedConfig(self, r.settings)
  /\ UNCHANGED <<fs, gen>>

\* lines 524-582 of a call render_each('s1') on the first instance whose
\* selector the first engine resolves to the template t1: the generator has
\* built its descriptor, or has raised
ResolveS1 ==
  /\ gen.pc \in {"idle", "done", "failed"}
  /\ self.resolved < MaxResolutions
  /\ \E call \in {NewCall("render_each", <<"s1">>, NoContextSpec, NoDest, FALSE)},
        t \in {TemplatesAccessor(self, settings)} :
      \E e \in {All(t.self, t.settings)} :
        IF t.status # "ok"
        THEN /\ gen' = Fail(call, t.status)
             /\ self' = t.self
             /\ settings' = t.settings
             /\ fs' = fs
             /\ probe' = [probe EXCEPT !.op = "render_each"]
        ELSE IF e.status # "ok"
        THEN /\ gen' = Fail(call, e.status)
             /\ self' = e.self
             /\ settings' = e.settings
             /\ fs' = fs
             /\ probe' = [probe EXCEPT !.op = "render_each",
                                       !.other = SharedConfig(@, e.settings)]
        ELSE \E template \in {Template(<<"t1">>, AppOf(e.value[1], <<"t1">>),
                                       e.value[1].alias)} :
               \E built \in {BuildRenders("s1",
                                          TemplateConfig("s1", NoConfigDest,
                                                         NoContextSpec).value,
                                          <<template>>, 1,
                                          BatchFlag(call.selectors, call.dest, <<template>>),
                                          call.dest, e.settings, fs,
                                          [renders |-> <<>>, destCalls |-> <<>>,
                                           sidx |-> 1])} :
                 /\ self' = e.self
                 /\ settings' = e.settings
                 /\ fs' = built.disk
                 /\ probe' = [probe EXCEPT !.op = "render_each",
                                           !.other = SharedConfig(@, e.settings)]
                 /\ gen' = IF built.status # "ok" THEN Fail(call, built.status)
                           ELSE [call EXCEPT !.pc = "render", !.idx = 2,
                                             !.context = OverrideContext(NoContextSpec).context,
                                             !.renders = built.renders,
                                             !.destCalls = built.destCalls]

NextCache ==
  \/ ReadSelf
  \/ ReadOther
  \/ ResolveS1
  \/ RenderWriteYield
  \/ RenderRaises
  \/ Exhausted

SpecCache == InitCache /\ [][NextCache]_vars

(***************************************************************************)
(* Claims about the cached properties                                      *)
(***************************************************************************)
\* C11: once the config accessor of an instance has returned, no operation
\* adds, removes or changes a key of its configuration mapping (the dict the
\* caller supplied, or settings.STATIC_TEMPLATES), also when ENGINES is absent
\* and the built-in default engine definition is used.
C11_ConfigImmutableOnceLoaded ==
  [][/\ "config" \in self.cached => self'.config_ = self.config_
     /\ "config" \in probe.other.cached => probe'.other.config_ = probe.other.config_
    ]_vars

(***************************************************************************)
(* Claims about load failures in the engine walk                           *)
(***************************************************************************)
\* the answers in which a selected name fails to load
LoadFails(a) == a.answer.found /\ a.answer.unloadable # {}

\* the names already loaded for the selector when the i-th consulted engine
\* tries to load its j-th selected name
LoadedAt(i, j) ==
  UNION {Loaded(gen.answers[k]) : k \in 1..(i - 1)}
  \cup {gen.answers[i].answer.names[m] : m \in {m \in 1..(j - 1) :
          gen.answers[i].answer.names[m] \notin gen.answers[i].answer.unloadable}}

\* the selected names of the i-th consulted engine that fail to load, split by
\* whether a template is already loaded for the selector at that point
FailsAfterALoad(i) ==
  {j \in 1..Len(gen.answers[i].answer.names) :
     /\ gen.answers[i].answer.names[j] \in gen.answers[i].answer.unloadable
     /\ LoadedAt(i, j) # {}}

RaisedRuntimeError == gen.pc = "failed" /\ gen.error.type = "RuntimeError"

\* C12 as stated: whenever a name an engine selected fails to load through the
\* same engine, the call has aborted with RuntimeError, whether or not other
\* templates were already loaded for the selector.
C12_LoadFailureAlwaysRaises ==
  \A i \in 1..Len(gen.answers) : LoadFails(gen.answers[i]) => RaisedRuntimeError

\* C12 as amended: when a name an engine selected fails to load through the
\* same engine and at least one template is already loaded for the selector,
\* the call aborts at that engine with RuntimeError, nothing yielded and nothing
\* written; when no template is loaded yet for the selector the failure is
\* skipped silently: no error is raised for it and the name is not taken from
\* that engine. In neither case does the engine join the not-found chain.
C12_LoadFailureRaisesAfterALoad ==
  \A i \in 1..Len(gen.answers) :
    LoadFails(gen.answers[i]) =>
      /\ gen.answers[i].engine \notin Range(gen.chain)
      /\ IF FailsAfterALoad(i) # {}
         THEN /\ RaisedRuntimeError
              /\ i = Len(gen.answers)
              /\ gen.yielded = <<>> /\ gen.written = <<>>
              /\ DOMAIN fs.files = {}
         ELSE /\ RaisedRuntimeError => i < Len(gen.answers)
              /\ \A t \in 1..Len(gen.templates) :
                   gen.templates[t].engine = gen.answers[i].engine =>
                     gen.templates[t].name \notin gen.answers[i].answer.unloadable

\* the first engine skipped a failing name and loaded another one, the second
\* engine then failed to load a name and the call raised RuntimeError
C12_Witness ==
  /\ Len(gen.answers) = 2
  /\ LoadFails(gen.answers[1]) /\ FailsAfterALoad(1) = {}
  /\ Loaded(gen.answers[1]) # {}
  /\ LoadFails(gen.answers[2])
  /\ RaisedRuntimeError

\* the names the j-th consulted engine selected that an earlier engine of the
\* walk has already loaded
AlreadyLoaded(j) ==
  Selected(gen.answers[j]) \cap UNION {Loaded(gen.answers[k]) : k \in 1..(j - 1)}

\* C13: in the walk of one selector a later engine's get_template is not
\* invoked for a name an earlier engine has already loaded, and a load failure
\* of the later engine for such a name does not make the call fail.
C13_LoadedNameNotReloaded ==
  \A j \in 1..Len(gen.answers) :
    \A n \in AlreadyLoaded(j) :
      /\ [engine |-> gen.answers[j].engine, op |-> "get_template", name |-> n]
           \notin Range(gen.calls)
      /\ n \in gen.answers[j].answer.unloadable => ~RaisedRuntimeError

(***************************************************************************)
(* Claims about the cached global context                                  *)
(***************************************************************************)
\* the global context specification an instance resolves
GlobalSpecOf(slf) ==
  IF "context" \in slf.config_.keys THEN slf.config_.context ELSE DictSpec(EmptyDict)

\* one step of an instance from a to b: a cached context stays as it is and is
\* not resolved again; the context becomes cached only by one resolution; a
\* resolution that caches nothing is one that failed
CacheStep(a, b) ==
  /\ b.resolved \in {a.resolved, a.resolved + 1}
  /\ "context" \in a.cached =>
       "context" \in b.cached /\ b.context = a.context /\ b.resolved = a.resolved
  /\ ("context" \notin a.cached /\ "context" \in b.cached) =>
       /\ b.resolved = a.resolved + 1
       /\ b.context = DictMerge([k \in {"settings"} |-> SettingsObject],
                                ResolveContext(GlobalSpecOf(b)).value)
  /\ (b.resolved = a.resolved + 1 /\ "context" \notin b.cached) =>
       ResolveContext(GlobalSpecOf(b)).raised

ContextState(slf) == <<slf.resolved, "context" \in slf.cached, slf.context>>

\* a step that resolves or caches the context of one instance leaves the
\* context of the other instance as it was
IndependentCaches ==
  /\ ContextState(self') # ContextState(self) =>
       ContextState(probe'.other) = ContextState(probe.other)
  /\ ContextState(probe'.other) # ContextState(probe.other) =>
       ContextState(self') = ContextState(self)

\* a render of the first instance uses the mapping its cache holds
RenderUsesCache ==
  Len(gen'.yielded) > Len(gen.yielded) =>
    /\ "context" \in self'.cached
    /\ gen'.mapping = RenderMapping(self'.context,
                                    gen.renders[gen.ridx].config.context, gen.context)

\* C14 as stated: over any sequence of render calls and accessor reads the
\* global context specification of an instance is resolved at most once, every
\* render uses the cached mapping, and the caches of two instances are
\* independent.
C14_ContextResolvedAtMostOnce ==
  [][/\ self'.resolved <= 1 /\ probe'.other.resolved <= 1
     /\ RenderUsesCache
     /\ IndependentCaches]_vars

\* C14 as amended: the global context specification of an instance is resolved
\* on an access that finds no cached context; the first resolution that returns
\* a mapping caches it, and from then on it is never resolved again and every
\* access and every render uses that same mapping; a resolution that fails
\* caches nothing, so the next access resolves again; the caches of two
\* instances are independent.
C14_ContextResolvedOnceItSucceeds ==
  [][/\ CacheStep(self, self')
     /\ CacheStep(probe.other, probe'.other)
     /\ RenderUsesCache
     /\ IndependentCaches]_vars

\* the first instance resolved its callable once and rendered with the cached
\* mapping; the second instance, built from the same configuration, has
\* computed nothing
C14_Witness ==
  /\ GlobalSpecOf(self).kind \in {"callable", "import"}
  /\ self.resolved = 1
  /\ "context" \in self.cached
  /\ gen.pc = "done" /\ gen.yielded # <<>>
  /\ gen.mapping = self.context
  /\ probe.op = "context"
  /\ probe.other.config_ = self.config_
  /\ probe.other.resolved = 0
  /\ "context" \notin probe.other.cached

====
